---- MODULE Spec2Model ----
(***************************************************************************)
(* Model of src/main.js: an audio visualizer.  A click on the play button  *)
(* creates the audio context and analyser, starts reading and decoding the *)
(* selected file, creates a sphere mesh and starts the animation loop;     *)
(* every animation frame samples the analyser and scales, deforms and      *)
(* colours the mesh, then renders.                                         *)
(*                                                                         *)
(* JavaScript handlers run to completion, so every handler is one action.  *)
(* Numbers are exact rationals <<num, den>> (floating-point rounding is    *)
(* not modelled, except Math.sqrt, which rounds down to a fixed grid).     *)
(* Arrays are 0-based in the source and are sequences here: At(a, i).      *)
(***************************************************************************)
EXTENDS Integers, Sequences, FiniteSets, TLC

(***************************** bounds **************************************)
MaxSessions == 2      \* accepted clicks (each creates a mesh and a file read)
MaxCount == 2         \* history counters saturate here
NumVertices == 2      \* vertices of the sphere geometry in the full model
SqrtDen == 4          \* Math.sqrt is rounded down to a multiple of 1/SqrtDen
MaxBins == 2          \* largest bin count of the frame-level model
MaxVerts == 3         \* largest vertex count of the frame-level model

(***************************** rationals ***********************************)
RECURSIVE GCD(_, _)
GCD(a, b) == IF b = 0 THEN a ELSE GCD(b, a % b)

Abs(x) == IF x < 0 THEN -x ELSE x

\* the rational n/d in lowest terms with a positive denominator
R(n, d) ==
    LET g == GCD(Abs(n), Abs(d))
        s == IF d < 0 THEN -1 ELSE 1
    IN  <<(s * n) \div g, (s * d) \div g>>

RInt(n) == <<n, 1>>
RAdd(x, y) == R(x[1] * y[2] + y[1] * x[2], x[2] * y[2])
RSub(x, y) == R(x[1] * y[2] - y[1] * x[2], x[2] * y[2])
RMul(x, y) == R(x[1] * y[1], x[2] * y[2])
RDiv(x, y) == R(x[1] * y[2], x[2] * y[1])

\* largest k in lo..hi with k * k <= n (binary search)
RECURSIVE ISqrtIn(_, _, _)
ISqrtIn(n, lo, hi) ==
    IF lo = hi THEN lo
    ELSE LET m == (lo + hi + 1) \div 2
         IN  IF m * m <= n THEN ISqrtIn(n, m, hi) ELSE ISqrtIn(n, lo, m - 1)

\* Math.sqrt of a non-negative rational, rounded down to a multiple of 1/SqrtDen
MathSqrt(x) ==
    LET d2 == SqrtDen * SqrtDen
        n == (x[1] \div x[2]) * d2 + ((x[1] % x[2]) * d2) \div x[2]
    IN  R(ISqrtIn(n, 0, IF n < 46340 THEN n ELSE 46340), SqrtDen)

(***************************** typed arrays ********************************)
\* A Uint8Array of `length` bytes whose element i is pat[i mod Len(pat)]:
\* every array is of this form with Len(pat) = length.
Uint8Array(length, pat) == [length |-> length, pat |-> pat]

At(a, i) == a.pat[(i % Len(a.pat)) + 1]

\* s[1] + ... + s[k], accumulated from the left
SeqSum(s, k) ==
    LET acc[j \in 0..k] == IF j = 0 THEN 0 ELSE acc[j - 1] + s[j]
    IN  acc[k]

\* array.reduce((acc, b) => acc + b, 0): the sum over the whole periods plus
\* the sum over the remaining prefix
Reduce(a) ==
    LET p == Len(a.pat)
    IN  SeqSum(a.pat, p) * (a.length \div p) + SeqSum(a.pat, a.length % p)

\* the array of the squares: reduce((sum, value) => sum + value * value, 0)
\* is Reduce(Squares(a))
Squares(a) == [a EXCEPT !.pat = [j \in 1..Len(@) |-> @[j] * @[j]]]

(***************************** program constants ***************************)
FFT_SIZE == 8192
radiusScaleFactor == R(15, 1000)
waveformScaleFactor == R(35, 1000)
PINK == 16738740                       \* 0xff69b4

NoFile == "none"
FileKinds == {"good", "corrupt"}       \* decodable / undecodable audio bytes
FreqBytes == {0, 255}                  \* magnitudes the frame-level model samples
TimeBytes == {128, 255}                \* time-domain samples it samples
WindowSizes == {<<4, 3>>, <<2, 1>>}    \* innerWidth, innerHeight
InitialWindow == <<4, 3>>              \* the window when the page loads


Sat(n) == IF n < MaxCount THEN n + 1 ELSE MaxCount   \* n + 1, saturating

\* an optional value: {} is undefined, {v} is v
Undefined == {}
Truthy(o) == o # {}
Value(o) == CHOOSE v \in o : TRUE

(***************************** state ***************************************)
VARIABLES
    files0,         \* fileInput.files[0]: NoFile or the kind of the selected file
    audioCtx,       \* TRUE once the audio context exists
    analyser,       \* the analyser node: defined, fftSize, inputs, toDestination
    shape,          \* index in meshes of the current sphere, 0 while undefined
    meshes,         \* every mesh created so far
    sceneChildren,  \* scene: indices of the meshes added, and the number of lights
    uiHidden,       \* the form was removed and the canvas raised
    jobs,           \* one entry per readFile call: the file and how far it got
    sources,        \* buffer sources created: connected, started
    rafPending,     \* animation-frame callbacks requested and not yet run
    window,         \* <<innerWidth, innerHeight>>
    camera,         \* aspect, and the aspect the projection matrix was built from
    rendererSize,   \* size last given to renderer.setSize
    lastTick,       \* the latest animate call: its frame, its steps in order
    hist            \* saturating counters: inits, alerts, errors, ticks, samples, draws, uncaught

vars == <<files0, audioCtx, analyser, shape, meshes, sceneChildren, uiHidden, jobs,
          sources, rafPending, window, camera, rendererSize, lastTick, hist>>

NoTick == [ran |-> FALSE, frequencyData |-> Uint8Array(0, <<>>),
           timeDomainData |-> Uint8Array(0, <<>>), log |-> <<>>,
           pendingAtRender |-> 0, reads |-> {}, writes |-> {}]

InitWith(fft, started, ms, raf) ==
    /\ files0 = NoFile
    /\ audioCtx = started
    /\ analyser = [defined |-> started, fftSize |-> fft, inputs |-> 0, toDestination |-> FALSE]
    /\ shape = Len(ms)
    /\ meshes = ms
    /\ sceneChildren = [meshes |-> 1..Len(ms), lights |-> 3 * Len(ms)]
    /\ uiHidden = started
    /\ jobs = <<>>
    /\ sources = <<>>
    /\ rafPending = raf
    /\ window = InitialWindow
    /\ camera = [aspect |-> R(window[1], window[2]), projectionAspect |-> R(window[1], window[2])]
    /\ rendererSize = window
    /\ lastTick = NoTick
    /\ hist = [inits |-> IF started THEN 1 ELSE 0, alerts |-> 0, errors |-> 0,
               ticks |-> 0, samples |-> 0, draws |-> 0, uncaught |-> 0]

\* the page after the module has run: nothing selected, no audio context
Init == InitWith(0, FALSE, <<>>, 0)


(***************************** the sphere **********************************)
\* the position attribute of a sphere geometry with n vertices: x, y, z of
\* vertex 0, then of vertex 1, ...; the first vertex is the pole (0, 1, 0)
SphereVertex(i) == <<R(-i, 2), RInt(1 - i), R(i, i + 2)>>
SpherePositions(n) == [j \in 1..(3 * n) |-> SphereVertex((j - 1) \div 3)[((j - 1) % 3) + 1]]

createSphere(n) ==
    [position |-> SpherePositions(n), needsUpdate |-> FALSE,
     originalPositions |-> Undefined,            \* geometry.userData.originalPositions
     scale |-> RInt(1), color |-> <<"hex", PINK>>]

(***************************** animate *************************************)
getColorFromVolume(volume) ==
    LET hue == RDiv(volume, RInt(255))
    IN  <<"hsl", hue, RInt(1), R(1, 2)>>

frequencyBinCount(an) == an.fftSize \div 2

\* The steps of animate() thread a record: the pending callbacks, the mesh,
\* the two local arrays and the log of the steps taken so far.
\* requestAnimationFrame that requests nothing
requestAnimationFrameDropped(t) ==
    [t EXCEPT !.log = Append(@, "requestAnimationFrame")]

requestAnimationFrame(t) ==
    [t EXCEPT !.raf = @ + 1, !.log = Append(@, "requestAnimationFrame")]

\* lines 101-105: f and d are what the analyser writes into the two arrays
sampleFrame(t, f, d) ==
    [t EXCEPT !.frequencyData = f, !.timeDomainData = d, !.log = Append(@, "sample")]

\* setScale averaging the squares
setScaleSquares(t) ==
    LET averageFrequency == RDiv(RInt(Reduce(Squares(t.frequencyData))),
                                 RInt(t.frequencyData.length))
    IN  [t EXCEPT !.mesh.scale = RAdd(RInt(1), RMul(averageFrequency, radiusScaleFactor)),
                  !.log = Append(@, "scale")]

setScale(t) ==
    LET averageFrequency == RDiv(RInt(Reduce(t.frequencyData)),
                                 RInt(t.frequencyData.length))
    IN  [t EXCEPT !.mesh.scale = RAdd(RInt(1), RMul(averageFrequency, radiusScaleFactor)),
                  !.log = Append(@, "scale")]

\* deform scaling the live positions instead of the rest pose
deformFromLive(t) ==
    LET array == t.mesh.position
        count == Len(array) \div 3
        timeDomainValue(i) ==
            RSub(RDiv(RInt(At(t.timeDomainData, i % t.timeDomainData.length)), RInt(128)),
                 RInt(1))
        moved(j) == RMul(array[j],
                         RAdd(RInt(1), RMul(timeDomainValue((j - 1) \div 3),
                                            waveformScaleFactor)))
    IN  [t EXCEPT !.mesh.originalPositions = IF Truthy(@) THEN @ ELSE {array},
                  !.mesh.position = [j \in 1..Len(array) |->
                                        IF j <= 3 * count THEN moved(j) ELSE array[j]],
                  !.log = Append(@, "deform")]

\* deform adding the displacement to the live positions (+= instead of =)
deformAdditive(t) ==
    LET array == t.mesh.position
        count == Len(array) \div 3
        originalPositions == IF Truthy(t.mesh.originalPositions)
                             THEN Value(t.mesh.originalPositions) ELSE array
        sampleIndex(i) == i % t.timeDomainData.length
        timeDomainValue(i) ==
            RSub(RDiv(RInt(At(t.timeDomainData, sampleIndex(i))), RInt(128)), RInt(1))
        moved(j) == RAdd(array[j],
                         RMul(originalPositions[j],
                              RMul(timeDomainValue((j - 1) \div 3), waveformScaleFactor)))
    IN  [t EXCEPT !.mesh.originalPositions = IF Truthy(@) THEN @ ELSE {originalPositions},
                  !.mesh.position = [j \in 1..Len(array) |->
                                        IF j <= 3 * count THEN moved(j) ELSE array[j]],
                  !.reads = {sampleIndex(i) : i \in 0..(count - 1)},
                  !.writes = {3 * i + k : i \in 0..(count - 1), k \in 0..2},
                  !.log = Append(@, "deform")]

\* deform without the || of line 117: the rest pose is captured on every call
deformRecapture(t) ==
    LET array == t.mesh.position
        count == Len(array) \div 3
        originalPositions == array
        sampleIndex(i) == i % t.timeDomainData.length
        timeDomainValue(i) ==
            RSub(RDiv(RInt(At(t.timeDomainData, sampleIndex(i))), RInt(128)), RInt(1))
        moved(j) == RMul(originalPositions[j],
                         RAdd(RInt(1), RMul(timeDomainValue((j - 1) \div 3),
                                            waveformScaleFactor)))
    IN  [t EXCEPT !.mesh.originalPositions = {originalPositions},
                  !.mesh.position = [j \in 1..Len(array) |->
                                        IF j <= 3 * count THEN moved(j) ELSE array[j]],
                  !.reads = {sampleIndex(i) : i \in 0..(count - 1)},
                  !.writes = {3 * i + k : i \in 0..(count - 1), k \in 0..2},
                  !.log = Append(@, "deform")]

\* deform indexing the samples by the vertex index, without the modulo
deformNoWrap(t) ==
    LET array == t.mesh.position
        count == Len(array) \div 3
        originalPositions == IF Truthy(t.mesh.originalPositions)
                             THEN Value(t.mesh.originalPositions) ELSE array
        sampleIndex(i) == i
        timeDomainValue(i) ==
            RSub(RDiv(RInt(At(t.timeDomainData, sampleIndex(i))), RInt(128)), RInt(1))
        moved(j) == RMul(originalPositions[j],
                         RAdd(RInt(1), RMul(timeDomainValue((j - 1) \div 3),
                                            waveformScaleFactor)))
    IN  [t EXCEPT !.mesh.originalPositions = IF Truthy(@) THEN @ ELSE {originalPositions},
                  !.mesh.position = [j \in 1..Len(array) |->
                                        IF j <= 3 * count THEN moved(j) ELSE array[j]],
                  !.reads = {sampleIndex(i) : i \in 0..(count - 1)},
                  !.writes = {3 * i + k : i \in 0..(count - 1), k \in 0..2},
                  !.log = Append(@, "deform")]

\* lines 115-131: capture the rest pose once, then rewrite every component;
\* reads and writes are the 0-based indices of the samples read and of the
\* position components written by the loop
deform(t) ==
    LET array == t.mesh.position
        count == Len(array) \div 3
        originalPositions == IF Truthy(t.mesh.originalPositions)
                             THEN Value(t.mesh.originalPositions) ELSE array
        sampleIndex(i) == i % t.timeDomainData.length
        timeDomainValue(i) ==
            RSub(RDiv(RInt(At(t.timeDomainData, sampleIndex(i))), RInt(128)), RInt(1))
        moved(j) == RMul(originalPositions[j],
                         RAdd(RInt(1), RMul(timeDomainValue((j - 1) \div 3),
                                            waveformScaleFactor)))
    IN  [t EXCEPT !.mesh.originalPositions = IF Truthy(@) THEN @ ELSE {originalPositions},
                  !.mesh.position = [j \in 1..Len(array) |->
                                        IF j <= 3 * count THEN moved(j) ELSE array[j]],
                  !.reads = {sampleIndex(i) : i \in 0..(count - 1)},
                  !.writes = {3 * i + k : i \in 0..(count - 1), k \in 0..2},
                  !.log = Append(@, "deform")]

\* setColor taking the mean instead of the root mean square
setColorMean(t) ==
    LET volume == RDiv(RInt(Reduce(t.frequencyData)),
                       RInt(t.frequencyData.length))
    IN  [t EXCEPT !.mesh.color = getColorFromVolume(volume),
                  !.mesh.needsUpdate = TRUE,
                  !.log = Append(@, "color")]

setColor(t) ==
    LET volume == MathSqrt(RDiv(RInt(Reduce(Squares(t.frequencyData))),
                                RInt(t.frequencyData.length)))
    IN  [t EXCEPT !.mesh.color = getColorFromVolume(volume),
                  !.mesh.needsUpdate = TRUE,
                  !.log = Append(@, "color")]

render(t) ==
    [t EXCEPT !.pendingAtRender = t.raf, !.log = Append(@, "render")]

\* animate requesting the next frame after rendering
animateStepsScheduleLast(t, f, d) ==
    requestAnimationFrame(render(setColor(deform(setScale(sampleFrame(t, f, d))))))

animateSteps(t, f, d) ==
    render(setColor(deform(setScale(sampleFrame(requestAnimationFrame(t), f, d)))))

Has(log, e) == \E k \in 1..Len(log) : log[k] = e

\* what an animate call leaves behind: the pending callbacks, the meshes and
\* the record of the call
Outcome(t, sh, ms) ==
    [raf |-> t.raf,
     meshes |-> IF sh = 0 THEN ms ELSE [ms EXCEPT ![sh] = t.mesh],
     tick |-> [ran |-> TRUE, frequencyData |-> t.frequencyData,
               timeDomainData |-> t.timeDomainData, log |-> t.log,
               pendingAtRender |-> t.pendingAtRender,
               reads |-> t.reads, writes |-> t.writes]]

Throw(t) == [t EXCEPT !.log = Append(@, "throw")]

\* animate(): the callback is requested first; reading analyser.frequencyBinCount
\* (line 101) or shape.scale (line 112) of an undefined variable throws and ends
\* the call there.
animate(an, sh, ms, raf, f, d) ==
    LET t0 == [raf |-> raf, mesh |-> IF sh = 0 THEN createSphere(0) ELSE ms[sh],
               frequencyData |-> NoTick.frequencyData,
               timeDomainData |-> NoTick.timeDomainData,
               log |-> <<>>, pendingAtRender |-> 0, reads |-> {}, writes |-> {}]
    IN  Outcome(IF ~an.defined THEN Throw(requestAnimationFrame(t0))
                ELSE IF sh = 0 THEN Throw(sampleFrame(requestAnimationFrame(t0), f, d))
                ELSE animateSteps(t0, f, d),
                sh, ms)

\* the counters after an animate call
Counted(h, tick) ==
    [h EXCEPT !.ticks = Sat(@),
              !.samples = IF Has(tick.log, "sample") THEN Sat(@) ELSE @,
              !.draws = IF Has(tick.log, "render") THEN Sat(@) ELSE @,
              !.uncaught = IF Has(tick.log, "throw") THEN Sat(@) ELSE @]

(***************************** frames the analyser can write ***************)
\* full model: silence, and one loud frame whose samples differ by index
FullFrames(B) ==
    { <<Uint8Array(B, <<0>>), Uint8Array(B, <<128>>)>>,
      <<Uint8Array(B, <<255, 128>>), Uint8Array(B, <<255, 0>>)>> }

\* frame-level model: every array of B bytes
AllArrays(B, bytes) == { Uint8Array(B, pat) : pat \in [1..B -> bytes] }
AllFrames(B) == AllArrays(B, FreqBytes) \X AllArrays(B, TimeBytes)

(***************************** handlers ************************************)
\* the user picks a file, or clears the selection
SelectFile(f) ==
    /\ files0 # f
    /\ files0' = f
    /\ UNCHANGED <<audioCtx, analyser, shape, meshes, sceneChildren, uiHidden, jobs,
                   sources, rafPending, window, camera, rendererSize, lastTick, hist>>

\* NeedsInit without the test of line 26
NeedsInitAlways == TRUE

\* line 26: the audio context does not exist yet
NeedsInit == ~audioCtx

\* lines 26-30: on the first click a new analyser is created and configured
InitAudio(an) ==
    IF NeedsInit
    THEN [defined |-> TRUE, fftSize |-> FFT_SIZE, inputs |-> 0, toDestination |-> FALSE]
    ELSE an

\* readFile(): a FileReader starts reading the selected file (lines 77, 93)
readFile(js) == Append(js, [file |-> files0, stage |-> "reading"])

\* Start calling animate() before the sphere is created and assigned
StartAnimateFirst(h) ==
    LET an == InitAudio(analyser)
        ms == Append(meshes, createSphere(NumVertices))
        sh == Len(ms)
    IN  \E fr \in FullFrames(frequencyBinCount(an)) :
          \E a \in {animate(an, shape, meshes, rafPending, fr[1], fr[2])} :
            /\ audioCtx' = TRUE
            /\ analyser' = an
            /\ uiHidden' = TRUE
            /\ jobs' = readFile(jobs)
            /\ shape' = sh
            /\ sceneChildren' = [meshes |-> sceneChildren.meshes \cup {sh},
                                 lights |-> sceneChildren.lights + 3]
            /\ meshes' = Append(a.meshes, createSphere(NumVertices))
            /\ rafPending' = a.raf
            /\ lastTick' = a.tick
            /\ hist' = Counted(h, a.tick)
            /\ UNCHANGED <<files0, sources, window, camera, rendererSize>>

\* lines 37-46: hide the form, read the file, create the sphere, add it to the
\* scene and call animate(); h is the counters so far
Start(h) ==
    LET an == InitAudio(analyser)
        ms == Append(meshes, createSphere(NumVertices))
        sh == Len(ms)
    IN  \E fr \in FullFrames(frequencyBinCount(an)) :
          \E a \in {animate(an, sh, ms, rafPending, fr[1], fr[2])} :
            /\ audioCtx' = TRUE
            /\ analyser' = an
            /\ uiHidden' = TRUE
            /\ jobs' = readFile(jobs)
            /\ shape' = sh
            /\ sceneChildren' = [meshes |-> sceneChildren.meshes \cup {sh},
                                 lights |-> sceneChildren.lights + 3]
            /\ meshes' = a.meshes
            /\ rafPending' = a.raf
            /\ lastTick' = a.tick
            /\ hist' = Counted(h, a.tick)
            /\ UNCHANGED <<files0, sources, window, camera, rendererSize>>

\* ClickNoFile without the return of line 34
ClickNoFileFallsThrough ==
    /\ files0 = NoFile
    /\ Len(jobs) < MaxSessions
    /\ Start([hist EXCEPT !.inits = IF NeedsInit THEN Sat(@) ELSE @, !.alerts = Sat(@)])

\* the click handler when no file is selected (lines 26-35)
ClickNoFile ==
    /\ files0 = NoFile
    /\ audioCtx' = TRUE
    /\ analyser' = InitAudio(analyser)
    /\ hist' = [hist EXCEPT !.inits = IF NeedsInit THEN Sat(@) ELSE @,
                            !.alerts = Sat(@)]
    /\ UNCHANGED <<files0, shape, meshes, sceneChildren, uiHidden, jobs, sources,
                   rafPending, window, camera, rendererSize, lastTick>>

\* the click handler with a file selected (lines 26-46), animate() included
ClickStart ==
    /\ files0 # NoFile
    /\ Len(jobs) < MaxSessions
    /\ Start([hist EXCEPT !.inits = IF NeedsInit THEN Sat(@) ELSE @])

\* reader.onload (lines 78-80): decodeAudioData is called on the bytes read
ReaderOnLoad(j) ==
    /\ jobs[j].stage = "reading"
    /\ jobs' = [jobs EXCEPT ![j].stage = "decoding"]
    /\ UNCHANGED <<files0, audioCtx, analyser, shape, meshes, sceneChildren, uiHidden,
                   sources, rafPending, window, camera, rendererSize, lastTick, hist>>

\* reader.onerror (lines 90-92)
ReaderOnError(j) ==
    /\ jobs[j].stage = "reading"
    /\ jobs' = [jobs EXCEPT ![j].stage = "readError"]
    /\ hist' = [hist EXCEPT !.errors = Sat(@)]
    /\ UNCHANGED <<files0, audioCtx, analyser, shape, meshes, sceneChildren, uiHidden,
                   sources, rafPending, window, camera, rendererSize, lastTick>>

\* the decode promise resolves (lines 80-85): a source is created, connected
\* to the analyser, the analyser to the destination, and the source started
DecodeResolved(j) ==
    /\ jobs[j].stage = "decoding"
    /\ jobs[j].file = "good"
    /\ jobs' = [jobs EXCEPT ![j].stage = "playing"]
    /\ sources' = Append(sources, [job |-> j, connected |-> TRUE, startedAt |-> 0])
    /\ analyser' = [analyser EXCEPT !.inputs = @ + 1, !.toDestination = TRUE]
    /\ UNCHANGED <<files0, audioCtx, shape, meshes, sceneChildren, uiHidden,
                   rafPending, window, camera, rendererSize, lastTick, hist>>

\* DecodeRejected with the source created outside the then-callback
DecodeRejectedStillPlays(j) ==
    /\ jobs[j].stage = "decoding"
    /\ jobs[j].file = "corrupt"
    /\ jobs' = [jobs EXCEPT ![j].stage = "decodeError"]
    /\ hist' = [hist EXCEPT !.errors = Sat(@)]
    /\ sources' = Append(sources, [job |-> j, connected |-> TRUE, startedAt |-> 0])
    /\ analyser' = [analyser EXCEPT !.inputs = @ + 1, !.toDestination = TRUE]
    /\ UNCHANGED <<files0, audioCtx, shape, meshes, sceneChildren, uiHidden,
                   rafPending, window, camera, rendererSize, lastTick>>

\* the decode promise rejects (lines 86-88)
DecodeRejected(j) ==
    /\ jobs[j].stage = "decoding"
    /\ jobs[j].file = "corrupt"
    /\ jobs' = [jobs EXCEPT ![j].stage = "decodeError"]
    /\ hist' = [hist EXCEPT !.errors = Sat(@)]
    /\ UNCHANGED <<files0, audioCtx, analyser, shape, meshes, sceneChildren, uiHidden,
                   sources, rafPending, window, camera, rendererSize, lastTick>>

\* a requested animation-frame callback runs animate()
AnimationFrame(frames) ==
    /\ rafPending > 0
    /\ \E fr \in frames :
         \E a \in {animate(analyser, shape, meshes, rafPending - 1, fr[1], fr[2])} :
             /\ meshes' = a.meshes
             /\ rafPending' = a.raf
             /\ lastTick' = a.tick
              /\ hist' = Counted(hist, a.tick)
    /\ UNCHANGED <<files0, audioCtx, analyser, shape, sceneChildren, uiHidden, jobs,
                   sources, window, camera, rendererSize>>

Tick == AnimationFrame(FullFrames(frequencyBinCount(analyser)))

\* onWindowResize redrawing by calling animate()
onWindowResizeAnimates(w) ==
    /\ window # w
    /\ window' = w
    /\ camera' = [aspect |-> R(w[1], w[2]), projectionAspect |-> R(w[1], w[2])]
    /\ rendererSize' = w
    /\ \E fr \in FullFrames(frequencyBinCount(analyser)) :
         \E a \in {animate(analyser, shape, meshes, rafPending, fr[1], fr[2])} :
             /\ meshes' = a.meshes
             /\ rafPending' = a.raf
             /\ lastTick' = a.tick
             /\ hist' = Counted(hist, a.tick)
    /\ UNCHANGED <<files0, audioCtx, analyser, shape, sceneChildren, uiHidden,
                   jobs, sources>>

\* the window is resized and onWindowResize runs (lines 152-156)
onWindowResize(w) ==
    /\ window # w
    /\ window' = w
    /\ camera' = [aspect |-> R(w[1], w[2]), projectionAspect |-> R(w[1], w[2])]
    /\ rendererSize' = w
    /\ UNCHANGED <<files0, audioCtx, analyser, shape, meshes, sceneChildren, uiHidden,
                   jobs, sources, rafPending, lastTick, hist>>

Next ==
    \/ \E f \in FileKinds \cup {NoFile} : SelectFile(f)
    \/ ClickNoFile
    \/ ClickStart
    \/ \E j \in 1..Len(jobs) : ReaderOnLoad(j)
    \/ \E j \in 1..Len(jobs) : ReaderOnError(j)
    \/ \E j \in 1..Len(jobs) : DecodeResolved(j)
    \/ \E j \in 1..Len(jobs) : DecodeRejected(j)
    \/ Tick
    \/ \E w \in WindowSizes : onWindowResize(w)

Spec == Init /\ [][Next]_vars

(***************************** frame-level model ***************************)
\* animate() as a function of the mesh and the frame: the analyser's bin
\* count and the geometry's vertex count are drawn from bounded sets, the
\* state is the one in which the click handler calls animate(), and every
\* frame of that many bytes can be sampled.
InitFrame ==
    \E B \in 1..MaxBins, n \in 1..MaxVerts :
        InitWith(2 * B, TRUE, <<createSphere(n)>>, 1)

TickFrame == AnimationFrame(AllFrames(frequencyBinCount(analyser)))

NextFrame == TickFrame

SpecFrame == InitFrame /\ [][NextFrame]_vars

(***************************** properties **********************************)
Running == hist.ticks > 0                       \* animate has been called
Pos(log, e) == CHOOSE k \in 1..Len(log) : log[k] = e

\* C1: once the decoding of the only file started so far has failed, the
\* failure has been reported, nothing is retried, and no tick has run and
\* nothing has been drawn.
C1_IdleAfterDecodeError ==
    (Len(jobs) = 1 /\ jobs[1].stage = "decodeError")
        => /\ hist.errors >= 1
           /\ hist.ticks = 0
           /\ hist.draws = 0

\* C2: a click with no file selected notifies the user and changes nothing
\* else but the one-time audio initialisation: no file read, no mesh, no
\* scene change, no callback requested, no tick, no sample, no draw.
C2_NoFileClickStaysIdle ==
    [][(files0 = NoFile /\ hist'.alerts # hist.alerts)
         => /\ hist'.alerts = hist.alerts + 1
            /\ UNCHANGED <<files0, shape, meshes, sceneChildren, uiHidden, jobs,
                           sources, rafPending, lastTick>>
            /\ hist'.ticks = hist.ticks
            /\ hist'.samples = hist.samples
            /\ hist'.draws = hist.draws
            /\ hist'.errors = hist.errors]_vars

\* two rejected clicks in a row, and the scheduler is still idle
C2_Witness ==
    /\ hist.alerts = MaxCount
    /\ jobs = <<>>
    /\ rafPending = 0
    /\ ~Running

\* C3: once running, no step starts another file read, creates or adds
\* another mesh, or adds a pending animation-frame callback.
C3_RestartIsNoOp ==
    [][Running => /\ Len(jobs') = Len(jobs)
                  /\ Len(meshes') = Len(meshes)
                  /\ sceneChildren' = sceneChildren
                  /\ shape' = shape
                  /\ rafPending' = rafPending]_vars

\* C4: the analyser is sampled only after a decoded source has been
\* connected to it and started.
C4_SampleOnlyAfterConnect ==
    hist.samples > 0 => (Len(sources) > 0 /\ analyser.inputs > 0)

\* C5: the analyser is initialised exactly once over any sequence of clicks,
\* with fftSize 8192 and so 4096 bins, and before any source is connected.
C5_InitOnce ==
    /\ hist.inits <= 1
    /\ (hist.inits = 1) = audioCtx
    /\ (hist.alerts > 0 \/ Len(jobs) > 0) => hist.inits = 1
    /\ audioCtx => /\ analyser.defined
                   /\ analyser.fftSize = 8192
                   /\ frequencyBinCount(analyser) = 4096
    /\ (Len(sources) > 0 \/ analyser.inputs > 0) => hist.inits = 1
    /\ analyser.inputs = Len(sources)

\* clicks without and with a file, two sessions, and a source connected
C5_Witness ==
    /\ hist.alerts > 0
    /\ Len(jobs) = MaxSessions
    /\ Len(sources) > 0
    /\ hist.inits = 1

\* C6: once animate has run, a next call is pending in every later state,
\* whatever became of the decoding, and every call renders.
C6_NeverIdleAgain ==
    Running => /\ rafPending >= 1
               /\ Has(lastTick.log, "render")
               /\ hist.draws = hist.ticks

\* ticks went on after a failed decode
C6_Witness ==
    /\ Len(jobs) = 1
    /\ jobs[1].stage = "decodeError"
    /\ hist.ticks = MaxCount
    /\ rafPending >= 1

(***************************** frame-level properties **********************)
TheMesh == meshes[shape]
NumVerts == Len(TheMesh.position) \div 3
RestPose == SpherePositions(NumVerts)
Bins == lastTick.frequencyData.length
FreqAt(i) == At(lastTick.frequencyData, i)
TimeAt(i) == At(lastTick.timeDomainData, i)

\* the sum of the squares of the bins 0 .. n - 1 of the latest frame
SumSquares(n) ==
    LET acc[j \in 0..n] == IF j = 0 THEN 0 ELSE acc[j - 1] + FreqAt(j - 1) * FreqAt(j - 1)
    IN  acc[n]

\* C7: after a tick, every vertex whose sample timeSamples[i mod B] is 128 is
\* at its rest position in all three components.
C7_RestAt128 ==
    lastTick.ran =>
        \A i \in 0..(NumVerts - 1) :
            TimeAt(i % Bins) = 128 =>
                \A k \in 1..3 : TheMesh.position[3 * i + k] = RestPose[3 * i + k]

\* a second tick put one vertex back at rest while another is displaced
C7_Witness ==
    /\ hist.ticks = MaxCount
    /\ \E i \in 0..(NumVerts - 1) : TimeAt(i % Bins) = 128
    /\ \E i \in 0..(NumVerts - 1), k \in 1..3 :
          /\ TimeAt(i % Bins) # 128
          /\ TheMesh.position[3 * i + k] # RestPose[3 * i + k]

\* C8: after a tick whose frequency bins all equal V, the mesh scale is
\* 1 + V * 0.015 (the average is V): 1 for V = 0 and 4.825 for V = 255.
C8_ScaleOfConstantFrame ==
    lastTick.ran =>
        \A V \in 0..255 :
            (\A i \in 0..(Bins - 1) : FreqAt(i) = V) =>
                /\ TheMesh.scale[1] * 1000 = (1000 + 15 * V) * TheMesh.scale[2]
                /\ V = 0 => TheMesh.scale = <<1, 1>>
                /\ V = 255 => TheMesh.scale[1] * 1000 = 4825 * TheMesh.scale[2]

\* an all-255 frame of more than one bin has been applied
C8_Witness ==
    /\ lastTick.ran
    /\ Bins > 1
    /\ \A i \in 0..(Bins - 1) : FreqAt(i) = 255
    /\ TheMesh.scale[1] * 1000 = 4825 * TheMesh.scale[2]

\* C9: after a tick the colour is HSL with saturation 1, lightness 1/2 and
\* hue = loudness / 255, where loudness is the root mean square of that
\* tick's frequency bins (rounded down to a multiple of 1/SqrtDen): hue 0
\* for the all-zero frame and hue 1 for the all-255 frame.
C9_ColorIsRmsHue ==
    lastTick.ran =>
        LET c == TheMesh.color
            sumsq == SumSquares(Bins)
            loud == RMul(c[2], RInt(255))            \* hue * 255
            k == (loud[1] * SqrtDen) \div loud[2]
        IN  /\ c[1] = "hsl" /\ c[3] = <<1, 1>> /\ c[4] = <<1, 2>>
            /\ k * loud[2] = loud[1] * SqrtDen       \* on the grid
            /\ k >= 0
            /\ k * k * Bins <= sumsq * SqrtDen * SqrtDen
            /\ sumsq * SqrtDen * SqrtDen < (k + 1) * (k + 1) * Bins
            /\ (\A i \in 0..(Bins - 1) : FreqAt(i) = 0) => c[2] = <<0, 1>>
            /\ (\A i \in 0..(Bins - 1) : FreqAt(i) = 255) => c[2] = <<1, 1>>

\* a frame of unequal bins has been coloured, after an earlier tick
C9_Witness ==
    /\ hist.ticks = MaxCount
    /\ \E i, j \in 0..(Bins - 1) : FreqAt(i) # FreqAt(j)
    /\ TheMesh.color[1] = "hsl"
    /\ TheMesh.color[2] # <<0, 1>>

(***************************** order within a tick *************************)
\* C10 as stated: the next tick is requested only after the draw.
C10_ScheduleAfterDraw ==
    (lastTick.ran /\ Has(lastTick.log, "render"))
        => Pos(lastTick.log, "render") < Pos(lastTick.log, "requestAnimationFrame")

\* C10 amended: every tick first requests the next tick, then samples the
\* analyser, sets the scale, deforms the mesh, sets the colour and draws; at
\* the draw the next tick is already pending.
C10_ScheduleFirst ==
    lastTick.ran =>
        /\ lastTick.log = <<"requestAnimationFrame", "sample", "scale", "deform",
                            "color", "render">>
        /\ lastTick.pendingAtRender = rafPending
        /\ lastTick.pendingAtRender >= 1

\* a tick run from an animation-frame callback has drawn
C10_Witness ==
    /\ hist.ticks = MaxCount
    /\ Has(lastTick.log, "render")
    /\ lastTick.pendingAtRender >= 1

(***************************** rest pose and deformation *******************)
\* the factor 1 + (s / 128 - 1) * 0.035 in lowest terms
Factor(s) == R(25600 + 7 * (s - 128), 25600)

\* the sample that moved vertex i in the latest tick; 128 before the first
SampleOf(i) == IF lastTick.ran THEN TimeAt(i % Bins) ELSE 128

\* C11: the rest pose is undefined until the first tick and from then on, after
\* any number of ticks, the cached rest positions are the positions the mesh
\* was created with.
C11_RestPoseCapturedOnce ==
    /\ ~lastTick.ran => /\ TheMesh.originalPositions = Undefined
                        /\ TheMesh.position = RestPose
    /\ lastTick.ran => TheMesh.originalPositions = {RestPose}

\* after two ticks the mesh is displaced and the cache still holds the rest pose
C11_Witness ==
    /\ hist.ticks = MaxCount
    /\ TheMesh.originalPositions = {RestPose}
    /\ TheMesh.position # RestPose

\* C12: in every state each component of vertex i is its rest component times
\* 1 + (s / 128 - 1) * 0.035, s being the sample at i mod B of the latest frame
\* (factor 1 before the first tick); so a frame of 128s restores the rest pose.
C12_LiveIsRestTimesFactor ==
    /\ \A i \in 0..(NumVerts - 1), k \in 1..3 :
          TheMesh.position[3 * i + k] = RMul(RestPose[3 * i + k], Factor(SampleOf(i)))
    /\ (\A i \in 0..(NumVerts - 1) : SampleOf(i) = 128) => TheMesh.position = RestPose

\* a second tick with a sample of 255 left a vertex at rest * 26489/25600
C12_Witness ==
    /\ hist.ticks = MaxCount
    /\ \E i \in 0..(NumVerts - 1), k \in 1..3 :
          /\ SampleOf(i) = 255
          /\ RestPose[3 * i + k] # <<0, 1>>
          /\ TheMesh.position[3 * i + k] = RMul(RestPose[3 * i + k], R(26489, 25600))

\* C13: a tick reads the samples at exactly the indices i mod B, all inside
\* [0, B), and writes every component of every vertex and nothing outside the
\* position array, whether N < B, N = B or N > B.
C13_IndicesInRange ==
    lastTick.ran =>
        /\ lastTick.reads \subseteq 0..(Bins - 1)
        /\ lastTick.reads = {i % Bins : i \in 0..(NumVerts - 1)}
        /\ lastTick.writes = 0..(3 * NumVerts - 1)
        /\ lastTick.writes \subseteq 0..(Len(TheMesh.position) - 1)
        /\ Len(lastTick.timeDomainData.pat) = Bins

\* more vertices than bins: the index wrapped, and every vertex was written
C13_Witness ==
    /\ lastTick.ran
    /\ Bins > 1
    /\ NumVerts > Bins
    /\ lastTick.reads = 0..(Bins - 1)
    /\ lastTick.writes = 0..(3 * NumVerts - 1)

(***************************** resize, chains, readiness, playback **********)
\* C14: a step that resizes the window sets the camera aspect, the projection
\* and the renderer size and leaves the meshes, the rest-pose caches, the
\* analyser, the audio and the scheduler as they were.
C14_ResizeTouchesOnlyCamera ==
    [][window' # window
         => /\ camera'.aspect = R(window'[1], window'[2])
            /\ camera'.projectionAspect = camera'.aspect
            /\ rendererSize' = window'
            /\ UNCHANGED <<files0, audioCtx, analyser, shape, meshes, sceneChildren,
                           uiHidden, jobs, sources, rafPending, lastTick, hist>>]_vars

\* resized while running, with a decode in flight
C14_Witness ==
    /\ window # InitialWindow
    /\ rendererSize = window
    /\ Running
    /\ \E j \in 1..Len(jobs) : jobs[j].stage = "decoding"

\* C15: at most one animation-frame callback is ever pending.
C15_OneTickChain ==
    rafPending <= 1

\* C16: whenever a tick is pending or has run, the analyser and the mesh are
\* assigned, and no animate call has thrown.
C16_TickHasAnalyserAndMesh ==
    /\ (rafPending > 0 \/ lastTick.ran) => (analyser.defined /\ shape # 0 /\ audioCtx)
    /\ hist.uncaught = 0
    /\ ~Has(lastTick.log, "throw")
    /\ shape <= Len(meshes)

\* rejected clicks, then a start, and ticks
C16_Witness ==
    /\ hist.alerts > 0
    /\ hist.ticks = MaxCount
    /\ rafPending > 0
    /\ shape # 0

SourcesOf(j) == {k \in 1..Len(sources) : sources[k].job = j}

\* C17: a job has a source exactly when its read completed and its decode
\* succeeded, and then only one; that source is connected to the analyser,
\* the analyser to the destination, and it was started at time zero.
C17_PlaybackOnlyAfterDecode ==
    /\ \A j \in 1..Len(jobs) :
          /\ Cardinality(SourcesOf(j)) = (IF jobs[j].stage = "playing" THEN 1 ELSE 0)
          /\ jobs[j].stage = "playing" => jobs[j].file = "good"
    /\ \A k \in 1..Len(sources) :
          /\ sources[k].job \in 1..Len(jobs)
          /\ sources[k].connected
          /\ sources[k].startedAt = 0
          /\ analyser.toDestination
    /\ analyser.inputs = Len(sources)
    /\ Len(sources) <= Len(jobs)

\* one file plays, the other failed to decode
C17_Witness ==
    /\ Len(sources) = 1
    /\ \E j \in 1..Len(jobs) : jobs[j].stage = "playing"
    /\ \E j \in 1..Len(jobs) : jobs[j].stage = "decodeError" /\ SourcesOf(j) = {}

====
